---- MODULE Spec2Model ----
(***************************************************************************)
(* win_dbg_logger: a log::Log provider that forwards records to the        *)
(* Windows OutputDebugString API, the init() helper that registers it with *)
(* the `log` crate, and the C-callable rust_win_dbg_logger_init_<level>    *)
(* entry points.                                                           *)
(*                                                                         *)
(* The registry (log::set_logger, log::set_max_level, the log! macro) is   *)
(* the `log` crate; it is modelled at the granularity of its atomic        *)
(* operations so that concurrent callers interleave as threads do.         *)
(***************************************************************************)
EXTENDS Integers, Sequences, FiniteSets, TLC

\* ---------------------------------------------------------------- bounds
\* The number of calls (of any operation, by any thread) made in one run.
MaxCalls == 2

\* Two application threads: every call may overlap one other call.
Threads == {1, 2}

\* ------------------------------------------------- log::Level, LevelFilter
\* log::Level is ordered Error < Warn < Info < Debug < Trace; LevelFilter
\* adds Off below Error.
Off == 0
Error == 1
Warn == 2
Info == 3
Debug == 4
Trace == 5

Level == Error..Trace
LevelFilter == Off..Trace

\* Display for Level: the canonical upper-case name.
LOG_LEVEL_NAMES == <<"ERROR", "WARN", "INFO", "DEBUG", "TRACE">>

\* ------------------------------------------------------------ Option<T>
\* None is <<>>, Some(x) is <<x>>.
None == <<>>
Some(x) == <<x>>
unwrap_or(o, d) == IF o = None THEN d ELSE o[1]

\* ------------------------------------------------------------ formatting
Digits == <<"0", "1", "2", "3", "4", "5", "6", "7", "8", "9">>

\* Display for u32: decimal digits, most significant first, no padding.
RECURSIVE DisplayU32(_)
DisplayU32(n) ==
    IF n < 10 THEN Digits[n + 1]
    ELSE DisplayU32(n \div 10) \o Digits[(n % 10) + 1]

\* Mutant: the line ends with a bare line feed.
format_lf(record) ==
    unwrap_or(record.file, "<unknown>") \o "("
        \o DisplayU32(unwrap_or(record.line, 0)) \o "): "
        \o LOG_LEVEL_NAMES[record.level] \o " - " \o record.args \o "\n"

\* format!("{}({}): {} - {}\r\n", file.unwrap_or("<unknown>"),
\*         line.unwrap_or(0), level, args)
format(record) ==
    unwrap_or(record.file, "<unknown>") \o "("
        \o DisplayU32(unwrap_or(record.line, 0)) \o "): "
        \o LOG_LEVEL_NAMES[record.level] \o " - " \o record.args \o "\r\n"

Warning == "Warning: Failed to register DebuggerLogger as the current Rust logger.\r\n"

\* ----------------------------------------------------------------- state
VARIABLES
    windows,               \* the build has cfg(windows)
    debugger,              \* a debugger is attached to the process
    LOGGER_STATE,          \* log crate STATE: UNINITIALIZED / INITIALIZING / INITIALIZED
    LOGGER,                \* log crate: the registered &'static dyn Log
    MAX_LOG_LEVEL_FILTER,  \* log crate: the global LevelFilter
    sink,                  \* strings handed to OutputDebugStringW, in order
    pc,                    \* each thread's position
    frame,                 \* each thread's current (or last) call
    hist,                  \* the calls started so far, in order
    input                  \* the record the provider-only specification draws

vars == <<windows, debugger, LOGGER_STATE, LOGGER, MAX_LOG_LEVEL_FILTER, sink, pc,
          frame, hist, input>>

registry == <<LOGGER_STATE, LOGGER, MAX_LOG_LEVEL_FILTER>>

\* ------------------------------------------------------------- providers
NopLogger == "NopLogger"
DEBUGGER_LOGGER == "DEBUGGER_LOGGER"
OTHER_LOGGER == "OTHER_LOGGER"
Providers == {DEBUGGER_LOGGER, OTHER_LOGGER}

\* ------------------------------------------------------------ capabilities
\* output_debug_string: OutputDebugStringW on Windows, nothing elsewhere.
output_debug_string(out, s) ==
    IF windows THEN Append(out, s) ELSE out

\* is_debugger_present: IsDebuggerPresent() != 0 on Windows, false elsewhere.
is_debugger_present ==
    IF windows THEN debugger ELSE FALSE

\* -------------------------------------------------------- DebuggerLogger
\* Mutant: the provider's threshold follows the global filter.
enabled_global(level) == level <= MAX_LOG_LEVEL_FILTER

\* Mutant: the provider has no threshold of its own.
enabled_always(level) == TRUE

enabled(level) == level <= Debug

\* Mutant: log does not ask whether a debugger is present.
log_unchecked(out, record) ==
    IF enabled(record.level)
    THEN output_debug_string(out, format(record))
    ELSE out

\* DebuggerLogger::log: the sink after logging `record`.
log(out, record) ==
    IF enabled(record.level) /\ is_debugger_present
    THEN output_debug_string(out, format(record))
    ELSE out

\* ------------------------------------------------------------ log records
Record(level, file, line, args) ==
    [level |-> level, file |-> file, line |-> line, args |-> args]

\* Records issued through the front-end in the registry specification.
Records == {Record(l, Some("a.c"), Some(7), "x=5") : l \in Level}

\* Records the provider-only specification draws its input from.
Files == {None, Some("foo.rs")}
Lines == {None, Some(42), Some(105)}
Messages == {"bad thing", "x=5"}
AllRecords ==
    {Record(l, f, n, m) : l \in Level, f \in Files, n \in Lines, m \in Messages}

\* examples/hello_world.rs: info!("Hello, world!"); debug!("Hello, world, in detail!")
MainInfo == Record(Info, Some("examples/hello_world.rs"), Some(4), "Hello, world!")
MainDebug == Record(Debug, Some("examples/hello_world.rs"), Some(5), "Hello, world, in detail!")

NoRecord == Record(Error, None, None, "")

\* ------------------------------------------------------------------ init
\* A call: the operation, its arguments, its position in hist and, once
\* set_logger has returned inside it, set_logger's result.
Frame(op, provider, level, record) ==
    [op |-> op, provider |-> provider, level |-> level, record |-> record,
     id |-> Len(hist) + 1, res |-> "none"]

NoFrame ==
    [op |-> "none", provider |-> NopLogger, level |-> Off, record |-> NoRecord,
     id |-> 0, res |-> "none"]

InitRegistry ==
    /\ LOGGER_STATE = "UNINITIALIZED"
    /\ LOGGER = NopLogger
    /\ MAX_LOG_LEVEL_FILTER = Off

Init ==
    /\ windows \in BOOLEAN
    /\ debugger \in BOOLEAN
    /\ InitRegistry
    /\ sink = <<>>
    /\ pc = [t \in Threads |-> "idle"]
    /\ frame = [t \in Threads |-> NoFrame]
    /\ hist = <<>>
    /\ input = NoRecord

\* ------------------------------------------------------------ call entry
\* Thread t starts call f: at most MaxCalls calls are made in a run.
Begin(t, f, at) ==
    /\ pc[t] = "idle"
    /\ Len(hist) < MaxCalls
    /\ frame' = [frame EXCEPT ![t] = f]
    /\ hist' = Append(hist, f)
    /\ pc' = [pc EXCEPT ![t] = at]

Goto(t, at) == pc' = [pc EXCEPT ![t] = at]

\* ------------------------------------------------------- log::set_logger
\* A direct call of log::set_logger(provider), the result kept by the caller.
CallSetLogger(t, p) ==
    /\ Begin(t, Frame("set_logger", p, Off, NoRecord), "cas")
    /\ UNCHANGED <<windows, debugger, registry, sink, input>>

\* STATE.compare_exchange(UNINITIALIZED, INITIALIZING)
set_logger_cas(t) ==
    /\ pc[t] = "cas"
    /\ IF LOGGER_STATE = "UNINITIALIZED"
       THEN LOGGER_STATE' = "INITIALIZING" /\ Goto(t, "write") /\ UNCHANGED frame
       ELSE IF LOGGER_STATE = "INITIALIZING"
       THEN UNCHANGED LOGGER_STATE /\ Goto(t, "spin") /\ UNCHANGED frame
       ELSE /\ UNCHANGED LOGGER_STATE
            /\ Goto(t, "ret")
            /\ frame' = [frame EXCEPT ![t].res = "Err"]
    /\ UNCHANGED <<windows, debugger, LOGGER, MAX_LOG_LEVEL_FILTER, sink, hist, input>>

\* LOGGER = make_logger()
set_logger_write(t) ==
    /\ pc[t] = "write"
    /\ LOGGER' = frame[t].provider
    /\ Goto(t, "store")
    /\ UNCHANGED <<windows, debugger, LOGGER_STATE, MAX_LOG_LEVEL_FILTER, sink, frame, hist, input>>

\* STATE.store(INITIALIZED); Ok(())
set_logger_store(t) ==
    /\ pc[t] = "store"
    /\ LOGGER_STATE' = "INITIALIZED"
    /\ frame' = [frame EXCEPT ![t].res = "Ok"]
    /\ Goto(t, "ret")
    /\ UNCHANGED <<windows, debugger, LOGGER, MAX_LOG_LEVEL_FILTER, sink, hist, input>>

\* while STATE.load() == INITIALIZING { spin_loop() }; Err(SetLoggerError)
set_logger_spin(t) ==
    /\ pc[t] = "spin"
    /\ LOGGER_STATE # "INITIALIZING"
    /\ frame' = [frame EXCEPT ![t].res = "Err"]
    /\ Goto(t, "ret")
    /\ UNCHANGED <<windows, debugger, registry, sink, hist, input>>

\* The direct caller receives the Result.
set_logger_return(t) ==
    /\ pc[t] = "ret"
    /\ frame[t].op = "set_logger"
    /\ hist' = [hist EXCEPT ![frame[t].id].res = frame[t].res]
    /\ Goto(t, "idle")
    /\ UNCHANGED <<windows, debugger, registry, sink, frame, input>>

\* --------------------------------------------------------------- init()
\* Mutant: init() registers with log::set_logger_racy, which loads the state
\* and writes the logger without a compare-exchange.
init_call_racy(t) ==
    /\ Begin(t, [Frame("init", DEBUGGER_LOGGER, Off, NoRecord) EXCEPT
                    !.res = IF LOGGER_STATE = "UNINITIALIZED" THEN "none" ELSE "Err"],
             IF LOGGER_STATE = "UNINITIALIZED" THEN "write" ELSE "ret")
    /\ UNCHANGED <<windows, debugger, registry, sink, input>>

\* pub fn init(): log::set_logger(&DEBUGGER_LOGGER) ...
init_call(t) ==
    /\ Begin(t, Frame("init", DEBUGGER_LOGGER, Off, NoRecord), "cas")
    /\ UNCHANGED <<windows, debugger, registry, sink, input>>

\* Mutant: init() unwraps set_logger's result.
init_match_unwrap(t) ==
    /\ pc[t] = "ret"
    /\ frame[t].op \in {"init", "init_at_level"}
    /\ hist' = [hist EXCEPT ![frame[t].id].res = frame[t].res]
    /\ Goto(t, IF frame[t].res = "Err" THEN "panicked"
               ELSE IF frame[t].op = "init" THEN "idle" ELSE "set_max_level")
    /\ UNCHANGED <<windows, debugger, registry, sink, frame, input>>

\* Mutant: init() writes its warning only when a debugger is present.
init_match_gated(t) ==
    /\ pc[t] = "ret"
    /\ frame[t].op \in {"init", "init_at_level"}
    /\ sink' = IF frame[t].res = "Ok" \/ ~is_debugger_present THEN sink
               ELSE output_debug_string(sink, Warning)
    /\ hist' = [hist EXCEPT ![frame[t].id].res = frame[t].res]
    /\ Goto(t, IF frame[t].op = "init" THEN "idle" ELSE "set_max_level")
    /\ UNCHANGED <<windows, debugger, registry, frame, input>>

\* ... match { Ok(()) => {}, Err(_) => output_debug_string(Warning) }
\* Inside an init-at-level entry point, set_max_level follows.
init_match(t) ==
    /\ pc[t] = "ret"
    /\ frame[t].op \in {"init", "init_at_level"}
    /\ sink' = IF frame[t].res = "Ok" THEN sink
               ELSE output_debug_string(sink, Warning)
    /\ hist' = [hist EXCEPT ![frame[t].id].res = frame[t].res]
    /\ Goto(t, IF frame[t].op = "init" THEN "idle" ELSE "set_max_level")
    /\ UNCHANGED <<windows, debugger, registry, frame, input>>

\* ------------------------------------------- rust_win_dbg_logger_init_*
\* extern "C" fn $func() { init(); log::set_max_level(LevelFilter::$level); }
define_init_at_level(t, level) ==
    /\ Begin(t, Frame("init_at_level", DEBUGGER_LOGGER, level, NoRecord), "cas")
    /\ UNCHANGED <<windows, debugger, registry, sink, input>>

rust_win_dbg_logger_init_info(t) == define_init_at_level(t, Info)
rust_win_dbg_logger_init_trace(t) == define_init_at_level(t, Trace)
rust_win_dbg_logger_init_debug(t) == define_init_at_level(t, Debug)
rust_win_dbg_logger_init_warn(t) == define_init_at_level(t, Warn)
rust_win_dbg_logger_init_error(t) == define_init_at_level(t, Error)

\* Mutant: every entry point sets the Debug filter.
init_at_level_set_max_fixed(t) ==
    /\ pc[t] = "set_max_level"
    /\ frame[t].op = "init_at_level"
    /\ MAX_LOG_LEVEL_FILTER' = Debug
    /\ Goto(t, "idle")
    /\ UNCHANGED <<windows, debugger, LOGGER_STATE, LOGGER, sink, frame, hist, input>>

\* Mutant: the filter is set only when the registration succeeded.
init_at_level_set_max_if_ok(t) ==
    /\ pc[t] = "set_max_level"
    /\ frame[t].op = "init_at_level"
    /\ MAX_LOG_LEVEL_FILTER' =
            IF frame[t].res = "Ok" THEN frame[t].level ELSE MAX_LOG_LEVEL_FILTER
    /\ Goto(t, "idle")
    /\ UNCHANGED <<windows, debugger, LOGGER_STATE, LOGGER, sink, frame, hist, input>>

\* log::set_max_level(LevelFilter::$level), the entry point's second statement.
init_at_level_set_max(t) ==
    /\ pc[t] = "set_max_level"
    /\ frame[t].op = "init_at_level"
    /\ MAX_LOG_LEVEL_FILTER' = frame[t].level
    /\ Goto(t, "idle")
    /\ UNCHANGED <<windows, debugger, LOGGER_STATE, LOGGER, sink, frame, hist, input>>

\* ---------------------------------------------------- log::set_max_level
\* A direct call: one atomic store.
set_max_level(t, filter) ==
    /\ Begin(t, Frame("set_max_level", NopLogger, filter, NoRecord), "idle")
    /\ MAX_LOG_LEVEL_FILTER' = filter
    /\ UNCHANGED <<windows, debugger, LOGGER_STATE, LOGGER, sink, input>>

\* ------------------------------------------------- the front-end (log!)
\* log::logger(): the NopLogger until LOGGER_STATE is INITIALIZED.
logger == IF LOGGER_STATE # "INITIALIZED" THEN NopLogger ELSE LOGGER

\* The front-end call returns with `outcome`; main goes on to its debug! line.
Finish(t, outcome) ==
    /\ hist' = [hist EXCEPT ![frame[t].id].res = outcome]
    /\ IF frame[t].op = "main" /\ frame[t].record = MainInfo
       THEN /\ frame' = [frame EXCEPT ![t].record = MainDebug]
            /\ Goto(t, "filter")
       ELSE /\ frame' = [frame EXCEPT ![t].res = outcome]
            /\ Goto(t, "idle")

log_macro(t, record) ==
    /\ Begin(t, Frame("log!", NopLogger, Off, record), "filter")
    /\ UNCHANGED <<windows, debugger, registry, sink, input>>

\* if lvl <= log::max_level() { ... }
log_macro_filter(t) ==
    /\ pc[t] = "filter"
    /\ IF frame[t].record.level <= MAX_LOG_LEVEL_FILTER
       THEN Goto(t, "dispatch") /\ UNCHANGED <<frame, hist>>
       ELSE Finish(t, "filtered")
    /\ UNCHANGED <<windows, debugger, registry, sink, input>>

\* log::logger().log(&record)
log_macro_dispatch(t) ==
    /\ pc[t] = "dispatch"
    /\ sink' = IF logger = DEBUGGER_LOGGER THEN log(sink, frame[t].record)
               ELSE sink
    /\ Finish(t, logger)
    /\ UNCHANGED <<windows, debugger, registry, input>>

\* ------------------------------------------- examples/hello_world.rs main
\* log::set_logger(&win_dbg_logger::DEBUGGER_LOGGER) ...
main_call(t) ==
    /\ Begin(t, Frame("main", DEBUGGER_LOGGER, Debug, MainInfo), "cas")
    /\ UNCHANGED <<windows, debugger, registry, sink, input>>

\* ... .unwrap(): a failed registration panics.
main_unwrap(t) ==
    /\ pc[t] = "ret"
    /\ frame[t].op = "main"
    /\ Goto(t, IF frame[t].res = "Ok" THEN "set_max_level" ELSE "panicked")
    /\ UNCHANGED <<windows, debugger, registry, sink, frame, hist, input>>

\* log::set_max_level(log::LevelFilter::Debug); do_cool_stuff() follows.
main_set_max(t) ==
    /\ pc[t] = "set_max_level"
    /\ frame[t].op = "main"
    /\ MAX_LOG_LEVEL_FILTER' = frame[t].level
    /\ Goto(t, "filter")
    /\ UNCHANGED <<windows, debugger, LOGGER_STATE, LOGGER, sink, frame, hist, input>>

\* ------------------------------------------------------------ environment
\* A debugger attaches to or detaches from the process.
DebuggerAttachDetach ==
    /\ debugger' = ~debugger
    /\ UNCHANGED <<windows, registry, sink, pc, frame, hist, input>>

\* --------------------------------------------------------- specification
Next ==
    \/ \E t \in Threads :
        \/ \E p \in Providers : CallSetLogger(t, p)
        \/ set_logger_cas(t)
        \/ set_logger_write(t)
        \/ set_logger_store(t)
        \/ set_logger_spin(t)
        \/ set_logger_return(t)
        \/ init_call(t)
        \/ init_match(t)
        \/ rust_win_dbg_logger_init_info(t)
        \/ rust_win_dbg_logger_init_trace(t)
        \/ rust_win_dbg_logger_init_debug(t)
        \/ rust_win_dbg_logger_init_warn(t)
        \/ rust_win_dbg_logger_init_error(t)
        \/ init_at_level_set_max(t)
        \/ \E f \in LevelFilter : set_max_level(t, f)
        \/ \E r \in Records : log_macro(t, r)
        \/ log_macro_filter(t)
        \/ log_macro_dispatch(t)
        \/ main_call(t)
        \/ main_unwrap(t)
        \/ main_set_max(t)
    \/ DebuggerAttachDetach

Spec == Init /\ [][Next]_vars

\* ------------------------------------------ the provider, called directly
\* DEBUGGER_LOGGER is public and implements log::Log: enabled, log and flush
\* can be called on it without the registry.  The call's argument is `input`.
provider_enabled(t) ==
    /\ Begin(t, [Frame("enabled", DEBUGGER_LOGGER, Off, input) EXCEPT
                    !.res = IF enabled(input.level) THEN "true" ELSE "false"],
             "idle")
    /\ UNCHANGED <<windows, debugger, registry, sink, input>>

provider_log(t) ==
    /\ Begin(t, Frame("log", DEBUGGER_LOGGER, Off, input), "idle")
    /\ sink' = log(sink, input)
    /\ UNCHANGED <<windows, debugger, registry, input>>

\* fn flush(&self) {}
provider_flush(t) ==
    /\ Begin(t, Frame("flush", DEBUGGER_LOGGER, Off, input), "idle")
    /\ UNCHANGED <<windows, debugger, registry, sink, input>>

InitProvider ==
    /\ windows \in BOOLEAN
    /\ debugger \in BOOLEAN
    /\ InitRegistry
    /\ sink = <<>>
    /\ pc = [t \in Threads |-> "idle"]
    /\ frame = [t \in Threads |-> NoFrame]
    /\ hist = <<>>
    /\ input \in AllRecords

NextProvider ==
    \/ \E t \in Threads :
        \/ provider_enabled(t)
        \/ provider_log(t)
        \/ provider_flush(t)
        \/ \E f \in LevelFilter : set_max_level(t, f)
        \/ init_call(t)
        \/ set_logger_cas(t)
        \/ set_logger_write(t)
        \/ set_logger_store(t)
        \/ set_logger_spin(t)
        \/ init_match(t)
    \/ DebuggerAttachDetach

SpecProvider == InitProvider /\ [][NextProvider]_vars

\* ================================================================ claims
AllIdle == \A t \in Threads : pc[t] = "idle"
Calls == 1..Len(hist)
Won == {i \in Calls : hist[i].res = "Ok"}
Lost == {i \in Calls : hist[i].res = "Err"}
Warnings == {k \in 1..Len(sink) : sink[k] = Warning}

\* C1: when every call made so far is a registration (log::set_logger with
\* some provider, or init()), at least two were made, possibly overlapping,
\* and all have returned, exactly one of them succeeded, every other one got
\* the error (a losing init() reacting with its warning), and the registered
\* provider is the one the successful call passed.
C1_ExactlyOneRegistrationWins ==
    (/\ AllIdle
     /\ Len(hist) >= 2
     /\ \A i \in Calls : hist[i].op \in {"set_logger", "init"})
    => /\ Cardinality(Won) = 1
       /\ Cardinality(Lost) = Len(hist) - 1
       /\ LOGGER_STATE = "INITIALIZED"
       /\ \A i \in Won : LOGGER = hist[i].provider
       /\ Len(sink) = Cardinality(Warnings)
       /\ Cardinality(Warnings) =
            IF windows THEN Cardinality({i \in Lost : hist[i].op = "init"}) ELSE 0

\* Two overlapping registrations in which the call that started first lost.
C1_Witness ==
    /\ AllIdle
    /\ Len(hist) = 2
    /\ hist[1].op = "init" /\ hist[1].res = "Err"
    /\ hist[2].op = "set_logger" /\ hist[2].res = "Ok"
    /\ LOGGER = OTHER_LOGGER

\* C2: a thread inside init() never panics; when it finds a provider already
\* registered, set_logger fails without touching the registry, and init() then
\* returns normally, leaves the registry as it is and hands the warning to
\* output_debug_string (one string on a Windows build, nothing elsewhere),
\* whatever the severity filter and whether or not a debugger is attached.
C2_InitNeverFaults ==
    [][\A t \in Threads :
        (frame[t].op = "init" /\ pc[t] # "idle") =>
            /\ pc'[t] # "panicked"
            /\ (pc[t] = "cas" /\ pc'[t] # "cas" /\ LOGGER_STATE = "INITIALIZED")
                => /\ pc'[t] = "ret"
                   /\ frame'[t].res = "Err"
                   /\ UNCHANGED <<registry, sink>>
            /\ (pc[t] = "ret" /\ pc'[t] # "ret" /\ frame[t].res = "Err")
                => /\ pc'[t] = "idle"
                   /\ UNCHANGED registry
                   /\ sink' = IF windows THEN Append(sink, Warning) ELSE sink
      ]_vars

\* init() has failed against another provider, with the filter Off and no
\* debugger attached, and the warning was written all the same.
C2_Witness ==
    /\ AllIdle
    /\ Len(hist) = 2
    /\ hist[1].op = "set_logger" /\ hist[1].res = "Ok"
    /\ hist[2].op = "init" /\ hist[2].res = "Err"
    /\ LOGGER = OTHER_LOGGER
    /\ MAX_LOG_LEVEL_FILTER = Off
    /\ ~debugger
    /\ sink = <<Warning>>

\* C3: a call of DebuggerLogger::log appends exactly one string to the
\* debugger output when enabled(record.level) holds and a debugger is attached
\* on a Windows build, and otherwise changes nothing; it never touches the
\* registry; on a build without the capabilities it never produces output.
C3_LogForwardsIffEnabledAndAttached ==
    [][(Len(hist') = Len(hist) + 1 /\ hist'[Len(hist')].op = "log") =>
        /\ UNCHANGED <<registry, windows, debugger, input>>
        /\ IF enabled(input.level) /\ windows /\ debugger
           THEN /\ Len(sink') = Len(sink) + 1
                /\ SubSeq(sink', 1, Len(sink)) = sink
           ELSE sink' = sink
        /\ ~windows => sink' = sink
      ]_vars

\* An enabled record was logged twice on a Windows build, once with a debugger
\* attached and once without: one string came out.
C3_Witness ==
    /\ Len(hist) = 2
    /\ hist[1].op = "log" /\ hist[2].op = "log"
    /\ input.level = Debug
    /\ windows
    /\ ~debugger
    /\ Len(sink) = 1

\* C4: every call of DebuggerLogger::enabled returned true for Error, Warn,
\* Info and Debug and false for Trace, whatever the global severity filter,
\* the debugger and the calls made before it.
C4_EnabledThreshold ==
    \A i \in Calls :
        hist[i].op = "enabled" =>
            hist[i].res =
                IF hist[i].record.level \in {Error, Warn, Info, Debug}
                THEN "true" ELSE "false"

\* enabled(Trace) was false although the global filter lets Trace through.
C4_Witness ==
    /\ Len(hist) = 2
    /\ hist[1].op = "set_max_level" /\ MAX_LOG_LEVEL_FILTER = Trace
    /\ hist[2].op = "enabled" /\ hist[2].record.level = Trace
    /\ hist[2].res = "false"
    /\ debugger

C5_File(file) == IF file = None THEN "<unknown>" ELSE file[1]
C5_Line(line) ==
    CASE line = None -> "0"
      [] line = Some(42) -> "42"
      [] line = Some(105) -> "105"
C5_Severity(level) ==
    CASE level = Error -> "ERROR"
      [] level = Warn -> "WARN"
      [] level = Info -> "INFO"
      [] level = Debug -> "DEBUG"
      [] level = Trace -> "TRACE"

\* C5: every string DebuggerLogger::log forwards is file + "(" + line + "): "
\* + the severity's upper-case name + " - " + message + "\r\n", with <unknown>
\* for a missing file and 0 for a missing line; the two examples in particular.
C5_ForwardedStringFormat ==
    [][(/\ Len(hist') = Len(hist) + 1
        /\ hist'[Len(hist')].op = "log"
        /\ sink' # sink)
        => /\ sink' = Append(sink,
                    C5_File(input.file) \o "(" \o C5_Line(input.line) \o "): "
                        \o C5_Severity(input.level) \o " - " \o input.args \o "\r\n")
           /\ input = Record(Warn, Some("foo.rs"), Some(42), "bad thing")
                => sink'[Len(sink')] = "foo.rs(42): WARN - bad thing\r\n"
           /\ input = Record(Warn, None, None, "bad thing")
                => sink'[Len(sink')] = "<unknown>(0): WARN - bad thing\r\n"
      ]_vars

\* The record without a source location was forwarded.
C5_Witness ==
    /\ input = Record(Warn, None, None, "bad thing")
    /\ sink = <<"<unknown>(0): WARN - bad thing\r\n">>

\* Thread t takes a step of the call it is in.
Steps(t) == pc[t] # "idle" /\ (pc'[t] # pc[t] \/ frame'[t] # frame[t])

\* C6: in a front-end call, a record above the global filter ends without
\* reaching any provider and without output (with the filter at Info: Debug
\* and Trace), a record at or below it is dispatched (Error, Warn, Info), and
\* dispatched to the registered DebuggerLogger it produces one string exactly
\* when it also passes the provider's own threshold (Debug or more severe)
\* and a debugger is attached on a Windows build.
C6_BothGates ==
    [][\A t \in Threads :
        /\ (pc[t] = "filter" /\ Steps(t)) =>
            /\ sink' = sink
            /\ pc'[t] = "dispatch" <=> frame[t].record.level <= MAX_LOG_LEVEL_FILTER
            /\ (MAX_LOG_LEVEL_FILTER = Info /\ frame[t].record.level \in {Debug, Trace})
                => hist'[frame[t].id].res = "filtered"
            /\ (MAX_LOG_LEVEL_FILTER = Info /\ frame[t].record.level \in {Error, Warn, Info})
                => pc'[t] = "dispatch"
        /\ (pc[t] = "dispatch" /\ Steps(t)) =>
            IF /\ LOGGER_STATE = "INITIALIZED" /\ LOGGER = DEBUGGER_LOGGER
               /\ frame[t].record.level \in {Error, Warn, Info, Debug}
               /\ windows /\ debugger
            THEN sink' = Append(sink, sink'[Len(sink')])
            ELSE sink' = sink
      ]_vars

\* The Info entry point registered the provider, and a Debug record, which
\* the provider's own threshold passes, was stopped by the global filter.
C6_Witness ==
    /\ AllIdle
    /\ Len(hist) = 2
    /\ hist[1].op = "init_at_level" /\ hist[1].level = Info /\ hist[1].res = "Ok"
    /\ hist[2].op = "log!" /\ hist[2].record.level = Debug
    /\ hist[2].res = "filtered"
    /\ LOGGER = DEBUGGER_LOGGER
    /\ MAX_LOG_LEVEL_FILTER = Info
    /\ windows /\ debugger
    /\ sink = <<>>

\* C7: when an init-at-level entry point for level L is the only call made
\* and returns, the registry holds DEBUGGER_LOGGER and the filter is L; when
\* the Trace entry point was the first call and has returned, the Debug record
\* a.c / 7 / "x=5" issued next makes the debugger output receive exactly
\* "a.c(7): DEBUG - x=5\r\n" with a debugger attached and nothing without.
C7_InitAtLevelThenLog ==
    [][\A t \in Threads :
        /\ (/\ Len(hist) = 1
            /\ frame[t].op = "init_at_level"
            /\ Steps(t) /\ pc'[t] = "idle")
            => /\ LOGGER_STATE' = "INITIALIZED"
               /\ LOGGER' = DEBUGGER_LOGGER
               /\ MAX_LOG_LEVEL_FILTER' = frame[t].level
               /\ hist'[1].res = "Ok"
               /\ sink' = <<>>
        /\ (/\ Len(hist) = 2
            /\ hist[1].op = "init_at_level" /\ hist[1].level = Trace
            /\ \A u \in Threads \ {t} : pc[u] = "idle"
            /\ frame[t].id = 2 /\ frame[t].op = "log!"
            /\ frame[t].record = Record(Debug, Some("a.c"), Some(7), "x=5")
            /\ Steps(t))
            => /\ pc[t] = "filter" => pc'[t] = "dispatch" /\ sink' = sink
               /\ pc[t] = "dispatch" =>
                    /\ sink = <<>>
                    /\ sink' = IF windows /\ debugger
                               THEN <<"a.c(7): DEBUG - x=5\r\n">> ELSE <<>>
      ]_vars

\* The scenario has run with a debugger attached.
C7_Witness ==
    /\ AllIdle
    /\ Len(hist) = 2
    /\ hist[1].op = "init_at_level" /\ hist[1].level = Trace
    /\ hist[2].op = "log!" /\ hist[2].res = DEBUGGER_LOGGER
    /\ MAX_LOG_LEVEL_FILTER = Trace
    /\ sink = <<"a.c(7): DEBUG - x=5\r\n">>

\* init(), alone or inside an entry point, sees set_logger fail.
InitFails(t) ==
    /\ frame[t].op \in {"init", "init_at_level"}
    /\ pc[t] = "ret" /\ pc'[t] # "ret"
    /\ frame[t].res = "Err"

\* C8 as stated: when registration fails inside init() and no debugger is
\* attached, nothing is handed to the debugger output.
C8_SilentWithoutDebugger ==
    [][\A t \in Threads : (InitFails(t) /\ ~debugger) => sink' = sink]_vars

\* C8 amended: when registration fails inside init() and no debugger is
\* attached, a Windows build still hands the warning to OutputDebugStringW
\* (init() does not ask whether a debugger is present); only a build without
\* the capability delivers nothing.
C8_WarningWithoutDebugger ==
    [][\A t \in Threads :
        (InitFails(t) /\ ~debugger) =>
            /\ windows => sink' = Append(sink, Warning)
            /\ ~windows => sink' = sink
      ]_vars

\* Registration failed inside an entry point on a Windows build with no
\* debugger attached, and the warning reached OutputDebugStringW.
C8_Witness ==
    /\ AllIdle
    /\ Len(hist) = 2
    /\ hist[2].op = "init_at_level" /\ hist[2].res = "Err"
    /\ windows
    /\ ~debugger
    /\ sink = <<Warning>>

\* C9: once a provider is registered the registry stays registered and the
\* provider never changes, whatever is called afterwards.
C9_WriteOnce ==
    [][/\ LOGGER # NopLogger => LOGGER' = LOGGER
       /\ LOGGER_STATE = "INITIALIZED" => LOGGER_STATE' = "INITIALIZED"
       /\ LOGGER_STATE # "UNINITIALIZED" => LOGGER_STATE' # "UNINITIALIZED"
      ]_vars

\* A second registration, with another provider, failed and the first
\* provider is still the registered one.
C9_Witness ==
    /\ AllIdle
    /\ Len(hist) = 2
    /\ hist[1].op = "set_logger" /\ hist[1].provider = OTHER_LOGGER /\ hist[1].res = "Ok"
    /\ hist[2].op = "init" /\ hist[2].res = "Err"
    /\ LOGGER_STATE = "INITIALIZED"
    /\ LOGGER = OTHER_LOGGER

EntryPoints == {i \in Calls : hist[i].op = "init_at_level"}

\* C10: an init-at-level entry point stores its level in the filter whether
\* or not its registration succeeded; when registrations and entry points
\* (at least one) are all that was called and all have returned, the provider
\* is that of the one successful registration and the filter is the level of
\* one of the entry points.
C10_ProviderFirstFilterLast ==
    /\ [][\A t \in Threads :
            (frame[t].op = "init_at_level" /\ pc[t] = "set_max_level" /\ Steps(t))
                => /\ MAX_LOG_LEVEL_FILTER' = frame[t].level
                   /\ pc'[t] = "idle"
                   /\ UNCHANGED <<LOGGER_STATE, LOGGER>>
         ]_vars
    /\ []((/\ AllIdle
           /\ EntryPoints # {}
           /\ \A i \in Calls : hist[i].op \in {"set_logger", "init", "init_at_level"})
          => /\ Cardinality(Won) = 1
             /\ \A i \in Won : LOGGER = hist[i].provider
             /\ \E i \in EntryPoints : MAX_LOG_LEVEL_FILTER = hist[i].level)

\* Two entry points were called; the second lost the registration and its
\* level is the filter.
C10_Witness ==
    /\ AllIdle
    /\ Len(hist) = 2
    /\ hist[1].op = "init_at_level" /\ hist[1].res = "Ok" /\ hist[1].level = Info
    /\ hist[2].op = "init_at_level" /\ hist[2].res = "Err" /\ hist[2].level = Error
    /\ LOGGER = DEBUGGER_LOGGER
    /\ MAX_LOG_LEVEL_FILTER = Error

====
